---- MODULE Spec2Model ----
(***************************************************************************)
(* Cart quantity-limit validation (the Function's run) and the settings    *)
(* flow that loads, edits and saves the limits map kept in a validation    *)
(* metafield.                                                              *)
(*                                                                         *)
(* Text is modelled as a sequence of one-character strings, so that the    *)
(* template literal of run and JSON.stringify / JSON.parse are computed    *)
(* character by character.  An optional JavaScript value (undefined/null   *)
(* or a value) is a sequence of length 0 or 1: <<>> is absent, <<x>> is x. *)
(***************************************************************************)
EXTENDS Integers, Sequences, FiniteSets, TLC

(***************************************************************************)
(* Bounds of the model.                                                    *)
(***************************************************************************)
\* longest cart the host passes to run
MaxLines == 2
\* largest quantity of a cart line (quantities are 1..MaxQty)
MaxQty == 2
\* largest limit initially persisted (limits are 0..MaxLimit)
MaxLimit == 1
\* largest value the number field delivers in the model (the field allows 0..99)
MaxEdit == 2

\* variant identifiers (opaque strings)
V1 == <<"v", "1">>
V2 == <<"v", "2">>
VariantIds == {V1, V2}

\* settings sessions (one admin page each)
Sessions == {"s1", "s2"}

\* display titles a product may carry; <<>> is the empty title ""
Titles == {<<>>, <<"C", "a", "p">>}

None == <<>>
Some(x) == <<x>>
IsSome(m) == Len(m) = 1
Get(m) == m[1]

(***************************************************************************)
(* Text helpers.                                                           *)
(***************************************************************************)
Digits == <<"0", "1", "2", "3", "4", "5", "6", "7", "8", "9">>

IsDigit(c) == \E d \in 1..10 : Digits[d] = c

DigitVal(c) == (CHOOSE d \in 1..10 : Digits[d] = c) - 1

\* String(n) of a non-negative integer, as the template literal and
\* JSON.stringify print it: decimal, no leading zeros
RECURSIVE NumToStr(_)
NumToStr(n) ==
  IF n < 10 THEN <<Digits[n + 1]>>
  ELSE NumToStr(n \div 10) \o <<Digits[(n % 10) + 1]>>

\* value of a run of decimal digits
RECURSIVE StrToNum(_)
StrToNum(s) ==
  IF Len(s) = 0 THEN 0
  ELSE 10 * StrToNum(SubSeq(s, 1, Len(s) - 1)) + DigitVal(s[Len(s)])

\* String.prototype.includes
Contains(s, sub) ==
  \E i \in 0..(Len(s) - Len(sub)) : SubSeq(s, i + 1, i + Len(sub)) = sub

(***************************************************************************)
(* JavaScript values that a limits map and a parsed payload can be.        *)
(* t is "num", "null", "str" or "obj"; an object keeps its own properties in      *)
(* insertion order as a sequence of [k, v] entries with distinct keys.     *)
(***************************************************************************)
JNum(n) == [t |-> "num", n |-> n, entries |-> <<>>]
JNull == [t |-> "null", n |-> 0, entries |-> <<>>]
JObj(es) == [t |-> "obj", n |-> 0, entries |-> es]
\* a property name read by the parser: its characters
JStr(cs) == [t |-> "str", n |-> 0, entries |-> cs]

EmptyObj == JObj(<<>>)

HasKey(es, k) == \E i \in 1..Len(es) : es[i].k = k

\* es[k] for an own property k
Lookup(es, k) == es[CHOOSE i \in 1..Len(es) : es[i].k = k].v

\* es[k] = v: an existing property keeps its position, a new one is appended
SetKey(es, k, v) ==
  IF HasKey(es, k)
  THEN [i \in 1..Len(es) |-> IF es[i].k = k THEN [k |-> k, v |-> v] ELSE es[i]]
  ELSE Append(es, [k |-> k, v |-> v])

\* the set of [k, v] pairs of an object: two objects are equal as maps when
\* these sets are equal
AsMap(es) == {es[i] : i \in 1..Len(es)}

(***************************************************************************)
(* JSON.stringify of a number, null or a flat object.  Property keys are   *)
(* variant identifiers, which hold no quote, backslash or control          *)
(* character, so quoting a key needs no escape.                            *)
(***************************************************************************)
QuoteKey(k) == <<"\"">> \o k \o <<"\"">>

StringifyScalar(v) ==
  IF v.t = "num" THEN NumToStr(v.n) ELSE <<"n", "u", "l", "l">>

RECURSIVE StringifyEntries(_)
StringifyEntries(es) ==
  IF Len(es) = 0 THEN <<>>
  ELSE QuoteKey(es[1].k) \o <<":">> \o StringifyScalar(es[1].v)
       \o (IF Len(es) = 1 THEN <<>> ELSE <<",">> \o StringifyEntries(Tail(es)))

JSONstringify(v) ==
  IF v.t = "obj" THEN <<"{">> \o StringifyEntries(v.entries) \o <<"}">>
  ELSE StringifyScalar(v)

(***************************************************************************)
(* JSON.parse, by recursive descent over the characters.  A result is      *)
(* [ok, val, next]: ok is FALSE when JSON.parse throws a SyntaxError.      *)
(* Covered grammar: non-negative integers, null, and objects whose values  *)
(* are those; any other text is rejected.                                  *)
(***************************************************************************)
ParseFail == [ok |-> FALSE, val |-> JNull, next |-> 0]
ParseOk(v, nxt) == [ok |-> TRUE, val |-> v, next |-> nxt]

\* index just after the run of digits that starts at i
RECURSIVE DigitsEnd(_, _)
DigitsEnd(s, i) ==
  IF i <= Len(s) /\ IsDigit(s[i]) THEN DigitsEnd(s, i + 1) ELSE i

\* a JSON number at i: "0", or a digit 1-9 followed by digits
ParseNumberAt(s, i) ==
  IF i > Len(s) \/ ~IsDigit(s[i]) THEN ParseFail
  ELSE IF s[i] = "0" THEN ParseOk(JNum(0), i + 1)
  ELSE LET e == DigitsEnd(s, i)
       IN ParseOk(JNum(StrToNum(SubSeq(s, i, e - 1))), e)

\* index of the closing quote of the string whose opening quote is at i - 1,
\* or 0 when the text ends first
RECURSIVE StringEnd(_, _)
StringEnd(s, i) ==
  IF i > Len(s) THEN 0
  ELSE IF s[i] = "\"" THEN i
  ELSE StringEnd(s, i + 1)

\* a JSON string at i
ParseStringAt(s, i) ==
  IF i > Len(s) \/ s[i] # "\"" THEN ParseFail
  ELSE LET e == StringEnd(s, i + 1)
       IN IF e = 0 THEN ParseFail
          ELSE ParseOk(JStr(SubSeq(s, i + 1, e - 1)), e + 1)

\* a member value at i: a number or null
ParseScalarAt(s, i) ==
  IF i + 3 <= Len(s) /\ SubSeq(s, i, i + 3) = <<"n", "u", "l", "l">>
  THEN ParseOk(JNull, i + 4)
  ELSE ParseNumberAt(s, i)

\* the members of an object from i (just after "{" or ","), added to acc;
\* a repeated key keeps its place and takes the later value
RECURSIVE ParseMembersAt(_, _, _)
ParseMembersAt(s, i, acc) ==
  LET key == ParseStringAt(s, i)
  IN IF ~key.ok \/ key.next > Len(s) \/ s[key.next] # ":" THEN ParseFail
     ELSE LET val == ParseScalarAt(s, key.next + 1)
          IN IF ~val.ok \/ val.next > Len(s) THEN ParseFail
             ELSE LET acc2 == SetKey(acc, key.val.entries, val.val)
                  IN IF s[val.next] = "}" THEN ParseOk(JObj(acc2), val.next + 1)
                     ELSE IF s[val.next] = "," THEN ParseMembersAt(s, val.next + 1, acc2)
                     ELSE ParseFail

ParseObjectAt(s, i) ==
  IF i + 1 > Len(s) \/ s[i] # "{" THEN ParseFail
  ELSE IF s[i + 1] = "}" THEN ParseOk(EmptyObj, i + 2)
  ELSE ParseMembersAt(s, i + 1, <<>>)

\* JSON.parse(text): the whole text must be one value
JSONparse(s) ==
  LET r == IF Len(s) > 0 /\ s[1] = "{" THEN ParseObjectAt(s, 1)
           ELSE ParseScalarAt(s, 1)
  IN IF r.ok /\ r.next = Len(s) + 1 THEN r ELSE ParseFail

(***************************************************************************)
(* The inputs of run.                                                      *)
(***************************************************************************)
\* merchandise.product: absent, or a product whose title may be absent
Products ==
  {None} \cup {Some([title |-> ti]) : ti \in {None} \cup {Some(x) : x \in Titles}}

\* a ProductVariant carries id and product; other merchandise carries neither
VariantMerchandise ==
  {[hasId |-> TRUE, id |-> v, product |-> p] : v \in VariantIds, p \in Products}

OtherMerchandise == [hasId |-> FALSE, id |-> <<>>, product |-> None]

Merchandise == VariantMerchandise \cup {OtherMerchandise}

CartLines == [quantity : 1..MaxQty, merchandise : Merchandise]

Carts == UNION {[1..n -> CartLines] : n \in 0..MaxLines}

\* limit maps over a set of variant ids: each id unlimited (no entry) or
\* limited to 0..MaxLimit
RECURSIVE MapsOver(_)
MapsOver(ids) ==
  IF ids = {} THEN {<<>>}
  ELSE LET v == CHOOSE x \in ids : TRUE
           rest == MapsOver(ids \ {v})
       IN rest
          \cup {Append(m, [k |-> v, v |-> JNum(n)]) : m \in rest, n \in 0..MaxLimit}

LimitMaps == MapsOver(VariantIds)

\* texts the metafield may hold: serialized limit maps, the JSON text null,
\* and a text that is not JSON
Payloads ==
  {JSONstringify(JObj(m)) : m \in LimitMaps}
    \cup {<<"n", "u", "l", "l">>, <<"n", "o", "t", "-", "j", "s", "o", "n">>}

VARIABLES
  definitionExists, \* the metafield definition of ($app:product-limits, product-limits-values) exists
  metafieldValue,   \* the value of the validation's metafield: None or Some(text)
  cart,             \* run's input: cart.lines
  validation,       \* run's input: [metafield |-> None or Some([value |-> None or Some(text)])]
  runPc,            \* "idle", "called", "loop", "returned", "threw"
  configuration,    \* run's const configuration
  errors,           \* run's const errors
  idx,              \* position of the for-of loop in cart.lines
  authPc,           \* the afterAuth hook: "idle", "returned"
  createdDefinition, \* whether the hook's last mutation created: None or Some(BOOLEAN)
  pc,               \* per session: "closed", "check", "create", "load", "ready", "saving", "failed"
  edition,          \* per session: the edition of the extension that runs, "" when closed
  apiData,          \* per session: api.data as the host gave it when the page opened
  uiConfiguration,  \* per session: the configuration parsed at load
  products,         \* per session: the result of getProducts
  settings,         \* per session: the working settings (entries of the object)
  entered,          \* per session: the value last entered for each variant edited
  request,          \* per session: the value of the metafield change in flight, or None
  uiErrors,         \* per session: the errors shown in banners
  thrown            \* per session: the error that ended the flow, "" when none

storeVars == <<definitionExists, metafieldValue>>
runVars == <<cart, validation, runPc, configuration, errors, idx>>
authVars == <<authPc, createdDefinition>>
uiVars ==
  <<pc, edition, apiData, uiConfiguration, products, settings, entered, request,
    uiErrors, thrown>>
vars == <<storeVars, authVars, runVars, uiVars>>

(***************************************************************************)
(* run (the cart validation Function).                                     *)
(***************************************************************************)
\* PayloadOrDefault without the ?? "{}" default: JSON.parse gets undefined
PayloadOrDefault_undefined(v) ==
  IF IsSome(v.metafield) /\ IsSome(Get(v.metafield).value)
  THEN Get(Get(v.metafield).value)
  ELSE <<"u", "n", "d", "e", "f", "i", "n", "e", "d">>

\* validation.metafield?.value ?? "{}"
PayloadOrDefault(v) ==
  IF IsSome(v.metafield) /\ IsSome(Get(v.metafield).value)
  THEN Get(Get(v.metafield).value)
  ELSE <<"{", "}">>

\* "id" in merchandise
HasId(merchandise) == merchandise.hasId

\* LimitOf that falls back to the limit of the first entry of the map
LimitOf_first(config, id) ==
  IF config.t = "obj" /\ HasKey(config.entries, id)
     /\ Lookup(config.entries, id).t = "num"
  THEN Some(Lookup(config.entries, id).n)
  ELSE IF config.t = "obj" /\ Len(config.entries) >= 1 /\ config.entries[1].v.t = "num"
  THEN Some(config.entries[1].v.n)
  ELSE None

\* LimitOf with || in place of ??: a stored 0 is falsy and becomes Infinity
LimitOf_or(config, id) ==
  IF config.t = "obj" /\ HasKey(config.entries, id)
     /\ Lookup(config.entries, id).t = "num"
     /\ Lookup(config.entries, id).n # 0
  THEN Some(Lookup(config.entries, id).n)
  ELSE None

\* configuration[merchandise.id] ?? Infinity; None stands for Infinity.
\* Reading a property of a number gives undefined.
LimitOf(config, id) ==
  IF config.t = "obj" /\ HasKey(config.entries, id)
     /\ Lookup(config.entries, id).t = "num"
  THEN Some(Lookup(config.entries, id).n)
  ELSE None

\* TitleOf with ?? in place of ||: an empty title is kept
TitleOf_nullish(merchandise) ==
  LET title == Get(merchandise.product).title
  IN IF IsSome(title) THEN Get(title)
     ELSE <<"U", "n", "k", "n", "o", "w", "n", " ", "p", "r", "o", "d", "u", "c", "t">>

\* merchandise.product.title || "Unknown product"
TitleOf(merchandise) ==
  LET title == Get(merchandise.product).title
  IN IF IsSome(title) /\ Get(title) # <<>> THEN Get(title)
     ELSE <<"U", "n", "k", "n", "o", "w", "n", " ", "p", "r", "o", "d", "u", "c", "t">>

\* Exceeds with >= in place of >
Exceeds_ge(quantity, limit) == IsSome(limit) /\ quantity >= Get(limit)

\* quantity > limit
Exceeds(quantity, limit) == IsSome(limit) /\ quantity > Get(limit)

\* LocalizedMessage that prints the fixed label whatever the title is
LocalizedMessage_label(quantity, title) ==
  <<"O", "r", "d", "e", "r", "s", " ", "a", "r", "e", " ", "l", "i", "m", "i",
    "t", "e", "d", " ", "t", "o", " ", "a", " ", "m", "a", "x", "i", "m", "u",
    "m", " ", "o", "f", " ">>
    \o NumToStr(quantity) \o <<" ", "o", "f", " ">>
    \o <<"U", "n", "k", "n", "o", "w", "n", " ", "p", "r", "o", "d", "u", "c", "t">>

\* `Orders are limited to a maximum of ${quantity} of ${title}`
LocalizedMessage(quantity, title) ==
  <<"O", "r", "d", "e", "r", "s", " ", "a", "r", "e", " ", "l", "i", "m", "i",
    "t", "e", "d", " ", "t", "o", " ", "a", " ", "m", "a", "x", "i", "m", "u",
    "m", " ", "o", "f", " ">>
    \o NumToStr(quantity) \o <<" ", "o", "f", " ">> \o title

\* LineThrows of a body that reads a field of configuration[merchandise.id]:
\* it throws as well when the variant has no entry
LineThrows_entry(config, line) ==
  HasId(line.merchandise)
    /\ (config.t = "null" \/ ~IsSome(line.merchandise.product)
          \/ ~HasKey(config.entries, line.merchandise.id))

\* the body of the loop throws a TypeError: configuration is null, or
\* merchandise.product is undefined
LineThrows(config, line) ==
  HasId(line.merchandise)
    /\ (config.t = "null" \/ ~IsSome(line.merchandise.product))

\* ErrorsAfterLine without the "id" in merchandise guard, a line without id
\* being held to a limit of 1
ErrorsAfterLine_unguarded(errs, config, line) ==
  IF Exceeds(line.quantity,
             IF HasId(line.merchandise) THEN LimitOf(config, line.merchandise.id)
             ELSE Some(1))
  THEN Append(errs, [localizedMessage |->
                       LocalizedMessage(line.quantity,
                                        IF HasId(line.merchandise)
                                        THEN TitleOf(line.merchandise)
                                        ELSE <<>>),
                     target |-> "cart"])
  ELSE errs

\* ErrorsAfterLine with errors.unshift in place of errors.push
ErrorsAfterLine_unshift(errs, config, line) ==
  IF HasId(line.merchandise)
     /\ Exceeds(line.quantity, LimitOf(config, line.merchandise.id))
  THEN <<[localizedMessage |->
            LocalizedMessage(line.quantity, TitleOf(line.merchandise)),
          target |-> "cart"]>> \o errs
  ELSE errs

\* errors after the loop body has run on line
ErrorsAfterLine(errs, config, line) ==
  IF HasId(line.merchandise)
     /\ Exceeds(line.quantity, LimitOf(config, line.merchandise.id))
  THEN Append(errs, [localizedMessage |->
                       LocalizedMessage(line.quantity, TitleOf(line.merchandise)),
                     target |-> "cart"])
  ELSE errs

\* the loop of run over lines from errs: it throws at the first line whose
\* body throws, else it returns the errors pushed
RECURSIVE RunFrom(_, _, _)
RunFrom(errs, lines, config) ==
  IF Len(lines) = 0 THEN [threw |-> FALSE, errors |-> errs]
  ELSE IF LineThrows(config, lines[1]) THEN [threw |-> TRUE, errors |-> errs]
  ELSE RunFrom(ErrorsAfterLine(errs, config, lines[1]), Tail(lines), config)

\* the host invokes run with a cart and the validation's metafield
Invoke ==
  /\ runPc = "idle"
  /\ \E c \in Carts : cart' = c
  /\ \E v \in (IF IsSome(metafieldValue)
               THEN {[metafield |-> Some([value |-> metafieldValue])]}
               ELSE {[metafield |-> None], [metafield |-> Some([value |-> None])]}) :
       validation' = v
  /\ runPc' = "called"
  /\ configuration' = JNull
  /\ errors' = <<>>
  /\ idx' = 1
  /\ UNCHANGED <<storeVars, authVars, uiVars>>

\* const configuration = JSON.parse(...); const errors = []
RunParse ==
  /\ runPc = "called"
  /\ LET r == JSONparse(PayloadOrDefault(validation))
     IN IF r.ok
        THEN /\ configuration' = r.val
             /\ runPc' = "loop"
        ELSE /\ configuration' = configuration
             /\ runPc' = "threw"
  /\ errors' = <<>>
  /\ idx' = 1
  /\ UNCHANGED <<storeVars, authVars, uiVars, cart, validation>>

\* RunLine that consumes the cart with cart.lines.shift()
RunLine_shift ==
  /\ runPc = "loop"
  /\ idx <= Len(cart)
  /\ IF LineThrows(configuration, cart[idx])
     THEN /\ runPc' = "threw"
          /\ UNCHANGED <<errors, cart>>
     ELSE /\ errors' = ErrorsAfterLine(errors, configuration, cart[idx])
          /\ cart' = Tail(cart)
          /\ runPc' = runPc
  /\ UNCHANGED <<storeVars, authVars, uiVars, idx, validation, configuration>>

\* one iteration of for (const {quantity, merchandise} of cart.lines)
RunLine ==
  /\ runPc = "loop"
  /\ idx <= Len(cart)
  /\ IF LineThrows(configuration, cart[idx])
     THEN /\ runPc' = "threw"
          /\ UNCHANGED <<errors, idx>>
     ELSE /\ errors' = ErrorsAfterLine(errors, configuration, cart[idx])
          /\ idx' = idx + 1
          /\ runPc' = runPc
  /\ UNCHANGED <<storeVars, authVars, uiVars, cart, validation, configuration>>

\* return {errors}
RunReturn ==
  /\ runPc = "loop"
  /\ idx > Len(cart)
  /\ runPc' = "returned"
  /\ UNCHANGED <<storeVars, authVars, uiVars, cart, validation, configuration, errors, idx>>

\* the invocation is over: the host discards it and may invoke run again
RunEnd ==
  /\ runPc \in {"returned", "threw"}
  /\ runPc' = "idle"
  /\ cart' = <<>>
  /\ validation' = [metafield |-> None]
  /\ configuration' = JNull
  /\ errors' = <<>>
  /\ idx' = 1
  /\ UNCHANGED <<storeVars, authVars, uiVars>>

(***************************************************************************)
(* The settings flow.                                                      *)
(***************************************************************************)
\* what getProducts returns when the query gives data: products(first: 5)
\* with their variants, none in a shop without products
Catalogs ==
  { <<>>,
    <<[title |-> <<"C", "a", "p">>, variants |-> <<[id |-> V1], [id |-> V2]>>]>>,
    <<[title |-> <<"C", "a", "p">>, variants |-> <<[id |-> V2]>>]>> }

\* the variants the settings screen shows a number field for
RECURSIVE ShownVariants(_)
ShownVariants(prods) ==
  IF Len(prods) = 0 THEN {}
  ELSE {prods[1].variants[i].id : i \in 1..Len(prods[1].variants)}
         \cup ShownVariants(Tail(prods))

\* api.data of a page opened while the metafield holds value: with a value
\* the validation lists the metafield; without one the validation, its
\* metafields, the metafield or its value is missing
ApiDataFor(value) ==
  IF IsSome(value)
  THEN {[validation |-> Some([metafields |-> Some(<<[value |-> value]>>)])]}
  ELSE {[validation |-> None],
        [validation |-> Some([metafields |-> None])],
        [validation |-> Some([metafields |-> Some(<<>>)])],
        [validation |-> Some([metafields |-> Some(<<[value |-> None]>>)])]}

\* api.data.validation?.metafields?.[0]?.value ?? "{}"
StoredPayloadOrDefault(data) ==
  IF /\ IsSome(data.validation)
     /\ IsSome(Get(data.validation).metafields)
     /\ Len(Get(Get(data.validation).metafields)) >= 1
     /\ IsSome(Get(Get(data.validation).metafields)[1].value)
  THEN Get(Get(Get(data.validation).metafields)[1].value)
  ELSE <<"{", "}">>

\* JSON.parse(api.data.validation?.metafields?.[0]?.value ?? "{}")
ParsedConfiguration(data) == JSONparse(StoredPayloadOrDefault(data))

\* if (limit): a number other than 0 is truthy, null and undefined are not
Truthy(config, id) ==
  /\ config.t = "obj"
  /\ HasKey(config.entries, id)
  /\ Lookup(config.entries, id).t = "num"
  /\ Lookup(config.entries, id).n # 0

\* SettingsOverVariants that gives a variant without a limit the limit 0
RECURSIVE SettingsOverVariants_defaulting(_, _, _)
SettingsOverVariants_defaulting(acc, variants, config) ==
  IF Len(variants) = 0 THEN acc
  ELSE SettingsOverVariants_defaulting(
         SetKey(acc, variants[1].id,
                IF Truthy(config, variants[1].id)
                THEN Lookup(config.entries, variants[1].id)
                ELSE JNum(0)),
         Tail(variants), config)

\* the inner forEach of createSettings over the variants of one product
RECURSIVE SettingsOverVariants(_, _, _)
SettingsOverVariants(acc, variants, config) ==
  IF Len(variants) = 0 THEN acc
  ELSE SettingsOverVariants(
         IF Truthy(config, variants[1].id)
         THEN SetKey(acc, variants[1].id, Lookup(config.entries, variants[1].id))
         ELSE acc,
         Tail(variants), config)

\* the outer forEach of createSettings over the products
RECURSIVE SettingsOverProducts(_, _, _)
SettingsOverProducts(acc, prods, config) ==
  IF Len(prods) = 0 THEN acc
  ELSE SettingsOverProducts(SettingsOverVariants(acc, prods[1].variants, config),
                            Tail(prods), config)

\* createSettings(products, configuration)
createSettings(prods, config) == SettingsOverProducts(<<>>, prods, config)

\* createSettings throws a TypeError: configuration is null and a variant is read
createSettingsThrows(prods, config) ==
  config.t = "null" /\ ShownVariants(prods) # {}

(***************************************************************************)
(* The editions of the settings extension.  The repository holds nine      *)
(* copies of it that differ in three places: how the bootstrap decides     *)
(* whether the definition must be created, whether the payload is parsed   *)
(* before or after that decision, and whether onChange only records the    *)
(* edit (the write waits for onSave) or writes on every change.  Copies    *)
(* that agree in all three behave alike and are one edition here, named    *)
(* after the first of them.                                                *)
(***************************************************************************)
\* ValidationSettings.tsx:20 and ValidationSettings.js:16
EdDefinitionSave == "definition/save"
\* part_001:19 and part_002:622
EdDefinitionChange == "definition/change"
\* ValidationSettings.tsx:339 and part_002:19
EdMetafieldsChange == "metafields/change"
\* ValidationSettings.js:285 and ValidationSettings.js:512
EdMetafieldsSave == "metafields/save"
\* part_002:313
EdMetafieldsThenParse == "metafields/parse/save"

Editions ==
  {EdDefinitionSave, EdDefinitionChange, EdMetafieldsChange, EdMetafieldsSave,
   EdMetafieldsThenParse}

\* the bootstrap asks the platform for the definition (getMetafieldDefinition)
ChecksDefinition(e) == e \in {EdDefinitionSave, EdDefinitionChange}

\* JSON.parse is the first statement of the callback, before the bootstrap
ParsesFirst(e) == e \in {EdMetafieldsChange, EdMetafieldsSave}

\* WritesOnChange of a build in which every onChange writes at once
WritesOnChange_all(e) == e \in Editions

\* onChange calls applyMetafieldChange; the edition has no onSave
WritesOnChange(e) == e \in {EdDefinitionChange, EdMetafieldsChange}

\* onChange stores the new settings (settings = newSettings, or setSettings);
\* the other edition holds settings in a const computed from what was loaded
KeepsEdits(e) == e # EdMetafieldsChange

\* onError maps over the errors state instead of its argument
OnErrorMapsState(e) == e = EdMetafieldsSave

\* !api.data.validation?.metafields
MetafieldsMissing(data) ==
  \/ ~IsSome(data.validation)
  \/ ~IsSome(Get(data.validation).metafields)

\* whether getProducts ends in ?? []: the copies of an edition that checks
\* the definition differ in it (ValidationSettings.tsx:222-231 and
\* part_001:245-254 have it, ValidationSettings.js:193-202 and
\* part_002:802-811 do not), part_002:537-546 has it, and no copy of the
\* other editions has
ProductsDefault(e) ==
  IF e = EdMetafieldsThenParse THEN {TRUE}
  ELSE IF ChecksDefinition(e) THEN {TRUE, FALSE}
  ELSE {FALSE}

\* products.forEach of createSettings over products that are undefined
ProductsUndefined == "TypeError: products is undefined"

\* the state of session s is dropped
Closed(s) ==
  /\ pc' = [pc EXCEPT ![s] = "closed"]
  /\ edition' = [edition EXCEPT ![s] = ""]
  /\ apiData' = [apiData EXCEPT ![s] = [validation |-> None]]
  /\ uiConfiguration' = [uiConfiguration EXCEPT ![s] = JNull]
  /\ products' = [products EXCEPT ![s] = <<>>]
  /\ settings' = [settings EXCEPT ![s] = <<>>]
  /\ entered' = [entered EXCEPT ![s] = <<>>]
  /\ request' = [request EXCEPT ![s] = None]
  /\ uiErrors' = [uiErrors EXCEPT ![s] = <<>>]
  /\ thrown' = [thrown EXCEPT ![s] = ""]

\* the merchant opens the settings page: the host runs the extension (of
\* the edition that is deployed) with api.data read from the validation
Open(s) ==
  /\ pc[s] = "closed"
  /\ pc' = [pc EXCEPT ![s] = "check"]
  /\ \E e \in Editions : edition' = [edition EXCEPT ![s] = e]
  /\ \E d \in ApiDataFor(metafieldValue) : apiData' = [apiData EXCEPT ![s] = d]
  /\ UNCHANGED <<storeVars, authVars, runVars, uiConfiguration, products, settings,
                 entered, request, uiErrors, thrown>>

\* const existingDefinition = await getMetafieldDefinition(api.query)
GetMetafieldDefinition(s) ==
  /\ pc[s] = "check"
  /\ ChecksDefinition(edition[s])
  /\ pc' = [pc EXCEPT ![s] = IF definitionExists THEN "load" ELSE "create"]
  /\ UNCHANGED <<storeVars, authVars, runVars, edition, apiData, uiConfiguration,
                 products, settings, entered, request, uiErrors, thrown>>

\* if (!api.data.validation?.metafields) { createMetafieldDefinition ... }:
\* the edition takes the absence of the validation's metafields for the
\* absence of the definition; where JSON.parse is the first statement, it
\* runs (and may throw) before this test
CheckMetafields(s) ==
  /\ pc[s] = "check"
  /\ ~ChecksDefinition(edition[s])
  /\ LET r == ParsedConfiguration(apiData[s])
     IN IF ParsesFirst(edition[s]) /\ ~r.ok
        THEN /\ pc' = [pc EXCEPT ![s] = "failed"]
             /\ thrown' = [thrown EXCEPT ![s] = "SyntaxError"]
             /\ uiConfiguration' = uiConfiguration
        ELSE /\ pc' = [pc EXCEPT ![s] =
                         IF MetafieldsMissing(apiData[s]) THEN "create" ELSE "load"]
             /\ thrown' = thrown
             /\ uiConfiguration' =
                  IF ParsesFirst(edition[s])
                  THEN [uiConfiguration EXCEPT ![s] = r.val]
                  ELSE uiConfiguration
  /\ UNCHANGED <<storeVars, authVars, runVars, edition, apiData, products, settings,
                 entered, request, uiErrors>>

\* const metafieldDefinition = await createMetafieldDefinition(api.query);
\* the mutation creates the definition or returns no createdDefinition (it
\* cannot create a definition that exists), and then the callback throws
CreateMetafieldDefinition(s) ==
  /\ pc[s] = "create"
  /\ \/ /\ ~definitionExists
        /\ definitionExists' = TRUE
        /\ pc' = [pc EXCEPT ![s] = "load"]
        /\ thrown' = thrown
     \/ /\ definitionExists' = definitionExists
        /\ pc' = [pc EXCEPT ![s] = "failed"]
        /\ thrown' = [thrown EXCEPT ![s] = "Failed to create metafield definition"]
  /\ UNCHANGED <<metafieldValue, authVars, runVars, edition, apiData, uiConfiguration,
                 products, settings, entered, request, uiErrors>>

\* ConfigurationAtLoad with the parse in a try/catch that falls back to {}
ConfigurationAtLoad_caught(s) ==
  IF ParsesFirst(edition[s]) THEN ParseOk(uiConfiguration[s], 0)
  ELSE IF ParsedConfiguration(apiData[s]).ok THEN ParsedConfiguration(apiData[s])
  ELSE ParseOk(EmptyObj, 0)

\* the configuration the callback holds when it reaches getProducts: parsed
\* here, or already parsed by the first statement
ConfigurationAtLoad(s) ==
  IF ParsesFirst(edition[s]) THEN ParseOk(uiConfiguration[s], 0)
  ELSE ParsedConfiguration(apiData[s])

\* LoadConfiguration that stores an empty map when it finds nothing stored
LoadConfiguration_initializing(s) ==
  /\ pc[s] = "load"
  /\ LET r == ConfigurationAtLoad(s)
     IN IF ~r.ok
        THEN /\ pc' = [pc EXCEPT ![s] = "failed"]
             /\ thrown' = [thrown EXCEPT ![s] = "SyntaxError"]
             /\ UNCHANGED <<uiConfiguration, products, settings>>
        ELSE \/ \E c \in Catalogs :
                  /\ uiConfiguration' = [uiConfiguration EXCEPT ![s] = r.val]
                  /\ products' = [products EXCEPT ![s] = c]
                  /\ IF createSettingsThrows(c, r.val)
                     THEN /\ pc' = [pc EXCEPT ![s] = "failed"]
                          /\ thrown' = [thrown EXCEPT ![s] = "TypeError"]
                          /\ settings' = settings
                     ELSE /\ pc' = [pc EXCEPT ![s] = "ready"]
                          /\ thrown' = thrown
                          /\ settings' = [settings EXCEPT ![s] = createSettings(c, r.val)]
             \/ \E defaulted \in ProductsDefault(edition[s]) :
                  /\ uiConfiguration' = [uiConfiguration EXCEPT ![s] = r.val]
                  /\ IF defaulted
                     THEN /\ products' = [products EXCEPT ![s] = <<>>]
                          /\ pc' = [pc EXCEPT ![s] = "ready"]
                          /\ thrown' = thrown
                          /\ settings' = [settings EXCEPT ![s] = createSettings(<<>>, r.val)]
                     ELSE /\ products' = products
                          /\ pc' = [pc EXCEPT ![s] = "failed"]
                          /\ thrown' = [thrown EXCEPT ![s] = ProductsUndefined]
                          /\ settings' = settings
  /\ metafieldValue' = IF IsSome(metafieldValue) THEN metafieldValue ELSE Some(<<"{", "}">>)
  /\ UNCHANGED <<definitionExists, authVars, runVars, edition, apiData, entered, request,
                 uiErrors>>

\* const configuration = JSON.parse(...); const products = await
\* getProducts(api.query); then the settings render from
\* createSettings(products, configuration) with no errors.  When the query
\* gives no data, getProducts returns [] where it ends in ?? [] and
\* undefined where it does not, and createSettings throws on undefined
LoadConfiguration(s) ==
  /\ pc[s] = "load"
  /\ LET r == ConfigurationAtLoad(s)
     IN IF ~r.ok
        THEN /\ pc' = [pc EXCEPT ![s] = "failed"]
             /\ thrown' = [thrown EXCEPT ![s] = "SyntaxError"]
             /\ UNCHANGED <<uiConfiguration, products, settings>>
        ELSE \/ \E c \in Catalogs :
                  /\ uiConfiguration' = [uiConfiguration EXCEPT ![s] = r.val]
                  /\ products' = [products EXCEPT ![s] = c]
                  /\ IF createSettingsThrows(c, r.val)
                     THEN /\ pc' = [pc EXCEPT ![s] = "failed"]
                          /\ thrown' = [thrown EXCEPT ![s] = "TypeError"]
                          /\ settings' = settings
                     ELSE /\ pc' = [pc EXCEPT ![s] = "ready"]
                          /\ thrown' = thrown
                          /\ settings' = [settings EXCEPT ![s] = createSettings(c, r.val)]
             \/ \E defaulted \in ProductsDefault(edition[s]) :
                  /\ uiConfiguration' = [uiConfiguration EXCEPT ![s] = r.val]
                  /\ IF defaulted
                     THEN /\ products' = [products EXCEPT ![s] = <<>>]
                          /\ pc' = [pc EXCEPT ![s] = "ready"]
                          /\ thrown' = thrown
                          /\ settings' = [settings EXCEPT ![s] = createSettings(<<>>, r.val)]
                     ELSE /\ products' = products
                          /\ pc' = [pc EXCEPT ![s] = "failed"]
                          /\ thrown' = [thrown EXCEPT ![s] = ProductsUndefined]
                          /\ settings' = settings
  /\ UNCHANGED <<storeVars, authVars, runVars, edition, apiData, entered, request,
                 uiErrors>>

\* OnChange that takes the empty field for no number and stores null
OnChange_blank(s) ==
  /\ pc[s] = "ready"
  /\ \E v \in ShownVariants(products[s]), value \in 0..MaxEdit :
       LET number == IF value = 0 THEN JNull ELSE JNum(value)
           newSettings == SetKey(settings[s], v, number)
       IN /\ entered' = [entered EXCEPT ![s] = SetKey(entered[s], v, number)]
          /\ settings' = [settings EXCEPT ![s] =
                            IF KeepsEdits(edition[s]) THEN newSettings ELSE settings[s]]
          /\ IF WritesOnChange(edition[s])
             THEN /\ request' = [request EXCEPT ![s] =
                                   Some(JSONstringify(JObj(newSettings)))]
                  /\ pc' = [pc EXCEPT ![s] = "saving"]
             ELSE UNCHANGED <<request, pc>>
  /\ uiErrors' = [uiErrors EXCEPT ![s] = <<>>]
  /\ UNCHANGED <<storeVars, authVars, runVars, edition, apiData, uiConfiguration,
                 products, thrown>>

\* OnChange that leaves the errors shown as they are
OnChange_keeping(s) ==
  /\ pc[s] = "ready"
  /\ \E v \in ShownVariants(products[s]), value \in 0..MaxEdit :
       LET newSettings == SetKey(settings[s], v, JNum(value))
       IN /\ entered' = [entered EXCEPT ![s] = SetKey(entered[s], v, JNum(value))]
          /\ settings' = [settings EXCEPT ![s] =
                            IF KeepsEdits(edition[s]) THEN newSettings ELSE settings[s]]
          /\ IF WritesOnChange(edition[s])
             THEN /\ request' = [request EXCEPT ![s] =
                                   Some(JSONstringify(JObj(newSettings)))]
                  /\ pc' = [pc EXCEPT ![s] = "saving"]
             ELSE UNCHANGED <<request, pc>>
  /\ UNCHANGED <<storeVars, authVars, runVars, edition, apiData, uiConfiguration,
                 products, uiErrors, thrown>>

\* onChange(variant, value).  Where the write waits for onSave:
\* setErrors([]); setSettings((prev) => ({...prev, [variant.id]:
\* Number(value)})).  Where onChange writes: errors = []; newSettings =
\* {...settings, [variant.id]: Number(value)}; the edition that keeps edits
\* assigns settings = newSettings; then applyMetafieldChange is called with
\* JSON.stringify(newSettings) and awaited
OnChange(s) ==
  /\ pc[s] = "ready"
  /\ \E v \in ShownVariants(products[s]), value \in 0..MaxEdit :
       LET newSettings == SetKey(settings[s], v, JNum(value))
       IN /\ entered' = [entered EXCEPT ![s] = SetKey(entered[s], v, JNum(value))]
          /\ settings' = [settings EXCEPT ![s] =
                            IF KeepsEdits(edition[s]) THEN newSettings ELSE settings[s]]
          /\ IF WritesOnChange(edition[s])
             THEN /\ request' = [request EXCEPT ![s] =
                                   Some(JSONstringify(JObj(newSettings)))]
                  /\ pc' = [pc EXCEPT ![s] = "saving"]
             ELSE UNCHANGED <<request, pc>>
  /\ uiErrors' = [uiErrors EXCEPT ![s] = <<>>]
  /\ UNCHANGED <<storeVars, authVars, runVars, edition, apiData, uiConfiguration,
                 products, thrown>>

\* OnSave that serializes the configuration as loaded, not the edited settings
OnSave_loaded(s) ==
  /\ pc[s] = "ready"
  /\ ~WritesOnChange(edition[s])
  /\ request' = [request EXCEPT ![s] = Some(JSONstringify(uiConfiguration[s]))]
  /\ pc' = [pc EXCEPT ![s] = "saving"]
  /\ UNCHANGED <<storeVars, authVars, runVars, edition, apiData, uiConfiguration,
                 products, settings, entered, uiErrors, thrown>>

\* onSave(): const result = await applyMetafieldChange({type:
\* "updateMetafield", namespace, key, value: JSON.stringify(settings)})
OnSave(s) ==
  /\ pc[s] = "ready"
  /\ ~WritesOnChange(edition[s])
  /\ request' = [request EXCEPT ![s] = Some(JSONstringify(JObj(settings[s])))]
  /\ pc' = [pc EXCEPT ![s] = "saving"]
  /\ UNCHANGED <<storeVars, authVars, runVars, edition, apiData, uiConfiguration,
                 products, settings, entered, uiErrors, thrown>>

\* MetafieldChangeApplied that refuses a change made over a stale read
MetafieldChangeApplied_versioned(s) ==
  /\ pc[s] = "saving"
  /\ apiData[s] \in ApiDataFor(metafieldValue)
  /\ metafieldValue' = request[s]
  /\ request' = [request EXCEPT ![s] = None]
  /\ pc' = [pc EXCEPT ![s] = "ready"]
  /\ UNCHANGED <<definitionExists, authVars, runVars, edition, apiData, uiConfiguration,
                 products, settings, entered, uiErrors, thrown>>

\* MetafieldChangeApplied that merges the change into the stored map
MetafieldChangeApplied_merged(s) ==
  /\ pc[s] = "saving"
  /\ LET old == IF IsSome(metafieldValue) THEN JSONparse(Get(metafieldValue))
                ELSE ParseOk(EmptyObj, 0)
         new == JSONparse(Get(request[s])).val.entries
         Kept(e) == ~HasKey(new, e.k)
     IN metafieldValue' =
          IF old.ok /\ old.val.t = "obj"
          THEN Some(JSONstringify(JObj(SelectSeq(old.val.entries, Kept) \o new)))
          ELSE request[s]
  /\ request' = [request EXCEPT ![s] = None]
  /\ pc' = [pc EXCEPT ![s] = "ready"]
  /\ UNCHANGED <<definitionExists, authVars, runVars, edition, apiData, uiConfiguration,
                 products, settings, entered, uiErrors, thrown>>

\* applyMetafieldChange resolves with type "success": the host has stored
\* the value of the change in place of what the metafield held
MetafieldChangeApplied(s) ==
  /\ pc[s] = "saving"
  /\ metafieldValue' = request[s]
  /\ request' = [request EXCEPT ![s] = None]
  /\ pc' = [pc EXCEPT ![s] = "ready"]
  /\ UNCHANGED <<definitionExists, authVars, runVars, edition, apiData, uiConfiguration,
                 products, settings, entered, uiErrors, thrown>>

\* applyMetafieldChange resolves with type "error": if (result.type ===
\* "error") { setErrors([result.message]) }
MetafieldChangeRejected(s) ==
  /\ pc[s] = "saving"
  /\ uiErrors' = [uiErrors EXCEPT ![s] = <<"rejected">>]
  /\ request' = [request EXCEPT ![s] = None]
  /\ pc' = [pc EXCEPT ![s] = "ready"]
  /\ UNCHANGED <<storeVars, authVars, runVars, edition, apiData, uiConfiguration,
                 products, settings, entered, thrown>>

\* messages the host may report to onError
HostErrors == {<<"e1">>, <<"e2", "e1">>}

\* onError(errors): setErrors(errors.map((e) => e.message)); in the edition
\* whose parameter is named error, errors is the state: its entries are
\* strings, and each maps to undefined
OnError(s) ==
  /\ pc[s] = "ready"
  /\ \E es \in HostErrors :
       uiErrors' = [uiErrors EXCEPT ![s] =
                      IF OnErrorMapsState(edition[s])
                      THEN [i \in 1..Len(uiErrors[s]) |-> "undefined"]
                      ELSE [i \in 1..Len(es) |-> es[i]]]
  /\ UNCHANGED <<storeVars, authVars, runVars, pc, edition, apiData, uiConfiguration,
                 products, settings, entered, request, thrown>>

\* the merchant leaves the page: the session's state is dropped
Close(s) ==
  /\ pc[s] \in {"ready", "failed"}
  /\ Closed(s)
  /\ UNCHANGED <<storeVars, authVars, runVars>>

(***************************************************************************)
(* The afterAuth hook of the app server.                                   *)
(***************************************************************************)
\* AfterAuth that also writes an empty map under the definition
AfterAuth_reset ==
  /\ authPc' = "returned"
  /\ \/ /\ ~definitionExists
        /\ definitionExists' = TRUE
        /\ createdDefinition' = Some(TRUE)
     \/ /\ definitionExists' = definitionExists
        /\ createdDefinition' = Some(FALSE)
  /\ metafieldValue' = Some(<<"{", "}">>)
  /\ UNCHANGED <<runVars, uiVars>>

\* afterAuth: async ({admin}) => { await admin.graphql(
\* metafieldDefinitionCreate ...) }: the mutation is sent on every
\* authentication, and its response is not read
AfterAuth ==
  /\ authPc' = "returned"
  /\ \/ /\ ~definitionExists
        /\ definitionExists' = TRUE
        /\ createdDefinition' = Some(TRUE)
     \/ /\ definitionExists' = definitionExists
        /\ createdDefinition' = Some(FALSE)
  /\ UNCHANGED <<metafieldValue, runVars, uiVars>>

\* Before the first session the metafield holds nothing or any payload; a
\* payload is only ever stored under an existing definition.
Init ==
  /\ metafieldValue \in {None} \cup {Some(p) : p \in Payloads}
  /\ definitionExists \in (IF IsSome(metafieldValue) THEN {TRUE} ELSE BOOLEAN)
  /\ authPc = "idle"
  /\ createdDefinition = None
  /\ cart = <<>>
  /\ validation = [metafield |-> None]
  /\ runPc = "idle"
  /\ configuration = JNull
  /\ errors = <<>>
  /\ idx = 1
  /\ pc = [s \in Sessions |-> "closed"]
  /\ edition = [s \in Sessions |-> ""]
  /\ apiData = [s \in Sessions |-> [validation |-> None]]
  /\ uiConfiguration = [s \in Sessions |-> JNull]
  /\ products = [s \in Sessions |-> <<>>]
  /\ settings = [s \in Sessions |-> <<>>]
  /\ entered = [s \in Sessions |-> <<>>]
  /\ request = [s \in Sessions |-> None]
  /\ uiErrors = [s \in Sessions |-> <<>>]
  /\ thrown = [s \in Sessions |-> ""]

NextRun == Invoke \/ RunParse \/ RunLine \/ RunReturn \/ RunEnd

SpecRun == Init /\ [][NextRun]_vars

\* the steps of one session from opening the page to the rendered settings
NextLoading(s) ==
  \/ Open(s)
  \/ GetMetafieldDefinition(s)
  \/ CheckMetafields(s)
  \/ CreateMetafieldDefinition(s)
  \/ LoadConfiguration(s)
  \/ Close(s)

\* the edits and writes of a rendered page
NextEditing(s) ==
  \/ OnChange(s)
  \/ OnSave(s)
  \/ MetafieldChangeApplied(s)
  \/ MetafieldChangeRejected(s)

\* one merchant using the settings page
NextSettings == NextLoading("s1") \/ NextEditing("s1")

SpecSettings == Init /\ [][NextSettings]_vars

\* Cart validations and page loads.  run and the loading of a page never
\* observe each other (run reads the metafield when invoked, the loading
\* writes only the definition), so they are taken one at a time.
NextValidateOrLoad ==
  \/ (pc["s1"] = "closed" /\ NextRun)
  \/ (runPc = "idle" /\ NextLoading("s1"))

SpecLoading == Init /\ [][NextValidateOrLoad]_vars

\* the catalog with every variant
FullCatalog ==
  <<[title |-> <<"C", "a", "p">>, variants |-> <<[id |-> V1], [id |-> V2]>>]>>

\* Two merchants with the settings page open at once, both in the edition
\* that checks the definition and writes on save, over the full catalog.
\* Each page stays open, changes the limit of one variant (as often as the
\* merchant likes) and saves any number of times.
NextConcurrent ==
  \/ \E s \in Sessions : Open(s) /\ edition'[s] = EdDefinitionSave
  \/ \E s \in Sessions : GetMetafieldDefinition(s)
  \/ \E s \in Sessions : CreateMetafieldDefinition(s)
  \/ \E s \in Sessions : LoadConfiguration(s) /\ products'[s] \in {<<>>, FullCatalog}
  \/ \E s \in Sessions : OnChange(s) /\ Len(entered'[s]) <= 1
  \/ \E s \in Sessions : OnSave(s)
  \/ \E s \in Sessions : MetafieldChangeApplied(s)
  \/ \E s \in Sessions : MetafieldChangeRejected(s)

\* nothing is stored yet, or a map with a limit for every variant is
InitConcurrent ==
  /\ Init
  /\ metafieldValue \in
       {None, Some(JSONstringify(JObj(<<[k |-> V1, v |-> JNum(1)], [k |-> V2, v |-> JNum(1)]>>)))}

SpecConcurrent == InitConcurrent /\ [][NextConcurrent]_vars

\* The bootstrap of the definition: page loads of one merchant and
\* authentications of the app, in any order.
NextSchema == NextLoading("s1") \/ AfterAuth

SpecSchema == Init /\ [][NextSchema]_vars

\* One merchant using the settings page while the host reports errors to
\* onError; the merchant changes the limit of one variant per visit.
NextBanners ==
  \/ NextLoading("s1")
  \/ OnChange("s1") /\ Len(entered'["s1"]) <= 1
  \/ OnSave("s1")
  \/ MetafieldChangeApplied("s1")
  \/ MetafieldChangeRejected("s1")
  \/ OnError("s1")

SpecBanners == Init /\ [][NextBanners]_vars

(***************************************************************************)
(* Vocabulary of the properties of run, stated on the inputs and the       *)
(* parsed limit map rather than through the operators of run.              *)
(***************************************************************************)
\* the limit map holds the non-negative integer n for the variant of line
ConfiguredAs(config, line, n) ==
  /\ line.merchandise.hasId
  /\ config.t = "obj"
  /\ \E e \in AsMap(config.entries) :
       e.k = line.merchandise.id /\ e.v = JNum(n)

\* line is variant-backed and asks for more than the limit of its variant
Offending(config, line) ==
  \E n \in 0..(line.quantity - 1) : ConfiguredAs(config, line, n)

\* line carries the product data of its variant
CarriesProduct(line) ==
  line.merchandise.hasId => IsSome(line.merchandise.product)

\* the loop is about to run its body on cart[idx]
AtLine == runPc = "loop" /\ idx <= Len(cart)

\* no payload reaches run: validation.metafield, or its value, is absent
NoPayload(v) == ~IsSome(v.metafield) \/ ~IsSome(Get(v.metafield).value)

\* the payload is the serialization of a map of non-negative integers
WellFormedPayload(v) ==
  NoPayload(v)
    \/ \E m \in LimitMaps : Get(Get(v.metafield).value) = JSONstringify(JObj(m))

\* C1: when every variant-backed line has no configured limit or a quantity
\* less than or equal to its limit, run returns an empty error list.
C1_NoErrorWithinLimits ==
  (runPc = "returned" /\ \A i \in 1..Len(cart) : ~Offending(configuration, cart[i]))
    => errors = <<>>

\* a returned run over a line whose quantity equals its limit and a line of
\* an unconfigured variant
C1_Witness ==
  /\ runPc = "returned"
  /\ Len(cart) = 2
  /\ ConfiguredAs(configuration, cart[1], cart[1].quantity)
  /\ cart[2].merchandise.hasId
  /\ ~HasKey(configuration.entries, cart[2].merchandise.id)
  /\ cart[2].quantity = MaxQty
  /\ errors = <<>>

\* the step C2 is about: the body run on an offending line adds one error
\* that names the quantity and the title
OffendingLineStep ==
  (AtLine /\ Offending(configuration, cart[idx]) /\ CarriesProduct(cart[idx]))
    => /\ Len(errors') = Len(errors) + 1
       /\ SubSeq(errors', 1, Len(errors)) = errors
       /\ LET msg == errors'[Len(errors')].localizedMessage
              title == Get(cart[idx].merchandise.product).title
          IN /\ Contains(msg, NumToStr(cart[idx].quantity))
             /\ IsSome(title) => Contains(msg, Get(title))

\* C2: the loop body, run on a variant-backed line whose quantity exceeds the
\* configured limit, adds exactly one error, whose message contains the
\* requested quantity and the display title of the line's product.
C2_OneErrorWithQuantityAndTitle == [][OffendingLineStep]_vars

\* an offending line titled "Cap" has been judged and reported
C2_Witness ==
  /\ runPc \in {"loop", "returned"}
  /\ idx > 1
  /\ Offending(configuration, cart[1])
  /\ cart[1].quantity = MaxQty
  /\ cart[1].merchandise.product = Some([title |-> Some(<<"C", "a", "p">>)])
  /\ Len(errors) = 1

\* C3: the loop body never adds an error for a line whose merchandise has no
\* id, whatever its quantity and whatever the limit map holds.
C3_OtherMerchandiseNeverLimited ==
  [][(AtLine /\ ~cart[idx].merchandise.hasId) => errors' = errors]_vars

\* a line without id and of the largest quantity has been passed over while
\* the limit map forbids every variant
C3_Witness ==
  /\ runPc \in {"loop", "returned"}
  /\ idx > 1
  /\ ~cart[1].merchandise.hasId
  /\ cart[1].quantity = MaxQty
  /\ configuration.t = "obj"
  /\ \A v \in VariantIds : [k |-> v, v |-> JNum(0)] \in AsMap(configuration.entries)
  /\ errors = <<>>

\* the step C4 is about: the body run on a line of a variant limited to 0
ZeroLimitStep ==
  (AtLine /\ ConfiguredAs(configuration, cart[idx], 0) /\ CarriesProduct(cart[idx]))
    => (cart[idx].quantity >= 1 /\ Len(errors') = Len(errors) + 1)

\* C4: a configured limit of 0 forbids the variant: the loop body adds an
\* error for every line of that variant (its quantity is at least 1).
C4_ZeroLimitForbids == [][ZeroLimitStep]_vars

\* a line of quantity 1 for a variant limited to 0 has been reported
C4_Witness ==
  /\ runPc = "returned"
  /\ Len(cart) = 1
  /\ cart[1].quantity = 1
  /\ ConfiguredAs(configuration, cart[1], 0)
  /\ Len(errors) = 1

\* C5: the returned errors correspond one to one, in cart order, to the
\* offending lines, each line judged on its own quantity.
C5_ErrorsFollowOffendingLines ==
  runPc = "returned" =>
    LET Off == {i \in 1..Len(cart) : Offending(configuration, cart[i])}
    IN /\ Len(errors) = Cardinality(Off)
       /\ \A i \in Off :
            errors[Cardinality({j \in Off : j <= i})].localizedMessage
              = LocalizedMessage(cart[i].quantity, TitleOf(cart[i].merchandise))

\* two lines of one forbidden variant with different quantities: two
\* different errors, in cart order
C5_Witness ==
  /\ runPc = "returned"
  /\ Len(cart) = 2
  /\ cart[1].merchandise.hasId
  /\ cart[1].merchandise.id = cart[2].merchandise.id
  /\ cart[1].quantity = 2
  /\ cart[2].quantity = 1
  /\ ConfiguredAs(configuration, cart[1], 0)
  /\ Len(errors) = 2
  /\ errors[1] # errors[2]

\* C6: run never ends by throwing, whatever the payload and the cart.
C6_NeverThrows == runPc # "threw"

\* C7: run throws only on malformed input: a payload that is not the
\* serialization of a map of non-negative integers, or a variant-backed line
\* without product.
C7_TotalOnWellFormedInput ==
  runPc = "threw" =>
    ~(WellFormedPayload(validation) /\ \A i \in 1..Len(cart) : CarriesProduct(cart[i]))

\* run returned on a well-formed, non-trivial input
C7_Witness ==
  /\ runPc = "returned"
  /\ Len(cart) = MaxLines
  /\ \A i \in 1..Len(cart) : cart[i].merchandise.hasId
  /\ ~NoPayload(validation)
  /\ WellFormedPayload(validation)
  /\ Len(configuration.entries) = 1
  /\ Len(errors) = 1

\* the step C8 is about: a step of run keeps its inputs
RunKeepsInputs ==
  runPc \in {"called", "loop"}
    => (cart' = cart /\ validation' = validation /\ metafieldValue' = metafieldValue)

\* C8: no step of run changes the cart, the validation it was given, or the
\* stored payload.
C8_InputsUnchanged == [][RunKeepsInputs]_vars

\* run returned errors for a full cart read against a stored payload
C8_Witness ==
  /\ runPc = "returned"
  /\ Len(cart) = MaxLines
  /\ ~NoPayload(validation)
  /\ Len(errors) = MaxLines

(***************************************************************************)
(* Properties of loading and saving the configuration.                     *)
(***************************************************************************)
\* api.data carries no payload: the validation, its metafields, the first
\* metafield or its value is missing
NoStoredPayload(data) ==
  \/ data.validation = None
  \/ Get(data.validation).metafields = None
  \/ Get(Get(data.validation).metafields) = <<>>
  \/ Get(Get(data.validation).metafields)[1].value = None

\* C9: when no payload is stored the loaded configuration is the empty map:
\* run parses {} and reports no error for any cart (it ends otherwise only
\* on a line without product data), and a settings page that gets past the
\* definition check renders with empty configuration and empty settings.
C9_NoPayloadLoadsEmptyMap ==
  /\ (runPc \in {"loop", "returned", "threw"} /\ NoPayload(validation))
       => /\ configuration = EmptyObj
          /\ errors = <<>>
          /\ runPc = "threw" => \E i \in 1..Len(cart) : ~CarriesProduct(cart[i])
  /\ \A s \in Sessions :
       NoStoredPayload(apiData[s])
         => /\ thrown[s] \notin {"SyntaxError", "TypeError"}
            /\ pc[s] = "ready"
                 => (uiConfiguration[s] = EmptyObj /\ settings[s] = <<>>)

\* a page rendered over a full catalog with nothing stored and no metafields
C9_Witness ==
  /\ metafieldValue = None
  /\ pc["s1"] = "ready"
  /\ apiData["s1"] = [validation |-> Some([metafields |-> None])]
  /\ ShownVariants(products["s1"]) = VariantIds
  /\ settings["s1"] = <<>>

\* api.data of a page opened over the stored value, taken with the metafield
\* listed
ApiDataOver(value) == [validation |-> Some([metafields |-> Some(<<[value |-> value]>>)])]

\* the step C10 is about: a save that writes, then a load of what it wrote
SaveThenLoad ==
  \A s \in Sessions :
    (pc[s] = "saving" /\ pc'[s] = "ready" /\ ~WritesOnChange(edition[s])
       /\ metafieldValue' # metafieldValue)
      => LET r == ParsedConfiguration(ApiDataOver(metafieldValue'))
         IN /\ r.ok
            /\ r.val.t = "obj"
            /\ AsMap(r.val.entries) = AsMap(settings[s])

\* C10: a save that writes the serialization of the map m leaves a payload
\* from which the load (the JSON.parse of api.data's first metafield value)
\* yields a map equal to m.
C10_SaveLoadRoundTrip == [][SaveThenLoad]_vars

\* a page whose edited settings (two entries, one of them 0, not what it
\* loaded) are what the metafield now holds
C10_Witness ==
  /\ pc["s1"] = "ready"
  /\ Len(settings["s1"]) = 2
  /\ \E i \in 1..2 : settings["s1"][i].v = JNum(0)
  /\ \E i \in 1..2 : settings["s1"][i].v = JNum(MaxEdit)
  /\ settings["s1"][1].k = V2
  /\ metafieldValue = Some(JSONstringify(JObj(settings["s1"])))
  /\ apiData["s1"] # ApiDataOver(metafieldValue)

(***************************************************************************)
(* Vocabulary of the properties of the bootstrap and of the writes.        *)
(***************************************************************************)
CreateFailure == "Failed to create metafield definition"

\* C11: when the definition of (namespace, key) already exists, running the
\* initialization again issues no create and does not fail, in every
\* edition: no session stands at the create call, or has ended on its
\* failure, while the definition exists.
C11_NoCreateOverExistingDefinition ==
  \A s \in Sessions :
    definitionExists => (pc[s] # "create" /\ thrown[s] # CreateFailure)

\* a step of the bootstrap: the existence check or the create call of a
\* page, or a run of afterAuth
SchemaStep ==
  \/ \E s \in Sessions : pc[s] \in {"check", "create"} /\ pc'[s] # pc[s]
  \/ authPc' = "returned"

\* C12: running the bootstrap of the definition any number of times never
\* changes a persisted limit map: neither the existence check nor the create
\* call writes or resets the payload.
C12_SchemaKeepsPayload == [][SchemaStep => metafieldValue' = metafieldValue]_vars

\* a map of two limits is stored, afterAuth has sent its create over the
\* existing definition, and a page has gone through its check and rendered
C12_Witness ==
  /\ \E m \in LimitMaps : Len(m) = 2 /\ metafieldValue = Some(JSONstringify(JObj(m)))
  /\ authPc = "returned"
  /\ createdDefinition = Some(FALSE)
  /\ pc["s1"] = "ready"
  /\ Len(settings["s1"]) >= 1

\* C13: when the create call yields no created definition the calling flow
\* fails with the initialization error: a page is never rendered and issues
\* no write, and no flow (afterAuth included) goes on after a failed create.
C13_FailedCreateEndsFlow ==
  /\ \A s \in Sessions :
       thrown[s] = CreateFailure
         => (pc[s] = "failed" /\ request[s] = None /\ settings[s] = <<>>)
  /\ createdDefinition = Some(FALSE) => authPc # "returned"

\* a text that is not JSON
NotJson == <<"n", "o", "t", "-", "j", "s", "o", "n">>

\* the page was opened over a stored payload that is not JSON
HoldsNonJson(data) == data = ApiDataOver(Some(NotJson))

\* C14: in the settings flow a stored payload that is not JSON makes the
\* load fail with the parse error: the page goes from its bootstrap to the
\* failure (before the bootstrap where the parse comes first), the payload
\* is never replaced by an empty map, and no settings are rendered.
C14_NonJsonPayloadFailsLoad ==
  \A s \in Sessions :
    HoldsNonJson(apiData[s])
      => /\ pc[s] \in {"check", "load", "failed"}
         /\ ParsesFirst(edition[s]) => pc[s] # "load"
         /\ pc[s] = "failed" => thrown[s] = "SyntaxError"
         /\ uiConfiguration[s] = JNull
         /\ settings[s] = <<>>
         /\ request[s] = None

\* a page of an edition that parses after its definition check has failed
\* on the stored text
C14_Witness ==
  /\ metafieldValue = Some(NotJson)
  /\ HoldsNonJson(apiData["s1"])
  /\ edition["s1"] = EdDefinitionSave
  /\ pc["s1"] = "failed"
  /\ thrown["s1"] = "SyntaxError"

\* the entries the page rendered with: the stored limits of shown variants
LoadedEntries(s) == AsMap(createSettings(products[s], uiConfiguration[s]))

\* C15: every write carries the full current map: in each edition the
\* payload of a write holds, for every variant edited in the session, the
\* value entered last, together with the loaded entries of the variants
\* that were not edited.
C15_WriteCarriesFullMap ==
  \A s \in Sessions :
    IsSome(request[s])
      => LET r == JSONparse(Get(request[s]))
         IN /\ r.ok
            /\ r.val.t = "obj"
            /\ AsMap(entered[s]) \subseteq AsMap(r.val.entries)
            /\ \A e \in LoadedEntries(s) :
                 ~HasKey(entered[s], e.k) => e \in AsMap(r.val.entries)

\* the keys of the persisted limit map
PersistedKeys(value) ==
  IF IsSome(value) /\ JSONparse(Get(value)).ok /\ JSONparse(Get(value)).val.t = "obj"
  THEN {e.k : e \in AsMap(JSONparse(Get(value)).val.entries)}
  ELSE {}

\* the step C16 is about: no step takes a key out of the persisted map
PersistedKeysKept == PersistedKeys(metafieldValue) \subseteq PersistedKeys(metafieldValue')

\* C16: the persisted limit map evolves additively: every key present in
\* it before a save is still present after the save (entries of variants
\* missing from the fetched catalog are never pruned).
C16_SavesNeverPruneKeys == [][PersistedKeysKept]_vars

\* C17: when a write is rejected the error list is exactly the message of
\* the result, no write is in flight until the merchant acts again, and the
\* in-memory settings still hold every edit made so far, the one whose
\* write failed included.
C17_RejectedWriteKeepsEdits ==
  \A s \in Sessions :
    (pc[s] = "ready" /\ uiErrors[s] # <<>>)
      => /\ uiErrors[s] = <<"rejected">>
         /\ request[s] = None
         /\ AsMap(entered[s]) \subseteq AsMap(settings[s])

\* the step C18 is about: whenever the stored payload changes, it becomes
\* the whole map of the page whose save has just completed
LastSaveWins ==
  metafieldValue' # metafieldValue
    => \E s \in Sessions :
         /\ pc[s] = "saving"
         /\ pc'[s] = "ready"
         /\ metafieldValue' = Some(JSONstringify(JObj(settings[s])))

\* a save in flight can complete whatever the metafield holds by now
NoStaleRejection ==
  \A s \in Sessions : pc[s] = "saving" => ENABLED MetafieldChangeApplied(s)

\* C18: when two sessions load the same persisted map, edit concurrently
\* and both save, the persisted map is exactly the whole map of the save
\* that completed last: the earlier saver's edits are not merged in, and no
\* save is refused for having read a map that has since been replaced.
C18_LastSaveWinsWhole == [][LastSaveWins]_vars /\ []NoStaleRejection

\* both pages loaded the same stored map and edited different variants; the
\* save of the first is stored, and the save of the second, whose map lacks
\* the first's edit, is in flight over it
C18_Witness ==
  /\ apiData["s1"] = apiData["s2"]
  /\ uiConfiguration["s1"] = uiConfiguration["s2"]
  /\ Len(uiConfiguration["s1"].entries) = 2
  /\ entered["s1"] = <<[k |-> V1, v |-> JNum(MaxEdit)]>>
  /\ entered["s2"] = <<[k |-> V2, v |-> JNum(0)]>>
  /\ pc["s1"] = "ready"
  /\ metafieldValue = Some(JSONstringify(JObj(settings["s1"])))
  /\ pc["s2"] = "saving"
  /\ request["s2"] = Some(JSONstringify(JObj(settings["s2"])))
  /\ Lookup(settings["s2"], V1) # JNum(MaxEdit)
  /\ apiData["s2"] # ApiDataOver(metafieldValue)

\* the payload a page was opened over: the stored text, or None whichever
\* part of api.data is missing
PayloadOpenedOver(data) ==
  IF NoStoredPayload(data) THEN None
  ELSE Get(Get(data.validation).metafields)[1].value

\* the page of session s has loaded its configuration
Loaded(s) == pc[s] \in {"ready", "saving"}

\* two loads of the same stored payload yield equal maps
LoadsAgree ==
  \A s, t \in Sessions :
    (Loaded(s) /\ Loaded(t) /\ PayloadOpenedOver(apiData[s]) = PayloadOpenedOver(apiData[t]))
      => uiConfiguration[s] = uiConfiguration[t]

\* the step of a page from its load to the rendered settings or the failure
\* leaves the persisted record as it was
LoadKeepsRecord ==
  \A s \in Sessions :
    (pc[s] = "load" /\ pc'[s] # "load")
      => (metafieldValue' = metafieldValue /\ definitionExists' = definitionExists)

\* C19: loading is idempotent and read-only: loading twice with no write
\* in between yields equal maps, and a load never changes the persisted
\* record.
C19_LoadIdempotentReadOnly == []LoadsAgree /\ [][LoadKeepsRecord]_vars

\* two pages have loaded the stored map of two limits, handed to them in
\* the same api.data, and nothing was written in between
C19_Witness ==
  /\ Loaded("s1") /\ Loaded("s2")
  /\ IsSome(metafieldValue)
  /\ apiData["s1"] = ApiDataOver(metafieldValue)
  /\ apiData["s2"] = ApiDataOver(metafieldValue)
  /\ uiConfiguration["s1"] = uiConfiguration["s2"]
  /\ Len(uiConfiguration["s1"].entries) = 2
  /\ entered["s1"] # <<>>

UnknownProduct ==
  <<"U", "n", "k", "n", "o", "w", "n", " ", "p", "r", "o", "d", "u", "c", "t">>

\* String.prototype.endsWith
EndsWith(s, suffix) ==
  Len(s) >= Len(suffix) /\ SubSeq(s, Len(s) - Len(suffix) + 1, Len(s)) = suffix

\* the step C20 is about: the message of an offending line names the title
\* of its product, or the fallback when the title is missing or empty
TitleOrFallbackStep ==
  (AtLine /\ Offending(configuration, cart[idx]) /\ CarriesProduct(cart[idx]))
    => LET msg == errors'[Len(errors')].localizedMessage
           title == Get(cart[idx].merchandise.product).title
       IN /\ Len(errors') = Len(errors) + 1
          /\ (title = None \/ title = Some(<<>>))
               => EndsWith(msg, <<" ", "o", "f", " ">> \o UnknownProduct)
          /\ (title # None /\ title # Some(<<>>))
               => /\ EndsWith(msg, <<" ", "o", "f", " ">> \o Get(title))
                  /\ ~Contains(msg, UnknownProduct)

\* C20: when the title of an offending line is missing or empty the message
\* uses 'Unknown product'; when the title is non-empty the message uses that
\* title and never the fallback.
C20_TitleOrFallback == [][TitleOrFallbackStep]_vars

\* two offending lines have been reported: the first with an empty title,
\* the second titled
C20_Witness ==
  /\ runPc = "returned"
  /\ Len(errors) = 2
  /\ Len(cart) = 2
  /\ cart[1].merchandise.hasId
  /\ cart[1].merchandise.product = Some([title |-> Some(<<>>)])
  /\ EndsWith(errors[1].localizedMessage, UnknownProduct)
  /\ cart[2].merchandise.hasId
  /\ cart[2].merchandise.product = Some([title |-> Some(<<"C", "a", "p">>)])
  /\ EndsWith(errors[2].localizedMessage, <<"C", "a", "p">>)

\* the step C21 is about: the settings a page renders with hold, for every
\* shown variant, the persisted number of that variant and nothing else
MergeAtLoad ==
  \A s \in Sessions :
    (pc[s] = "load" /\ pc'[s] = "ready" /\ uiConfiguration'[s].t = "obj")
      => \A v \in ShownVariants(products'[s]) :
           LET persisted == uiConfiguration'[s].entries
           IN IF \E e \in AsMap(persisted) : e.k = v /\ e.v.t = "num"
              THEN \E e \in AsMap(persisted) :
                     e.k = v /\ e \in AsMap(settings'[s])
              ELSE \A e \in AsMap(settings'[s]) : e.k # v

\* C21: the merge at load time (createSettings): for every catalog variant
\* whose id has a persisted value (any non-negative integer, 0 included) the
\* working settings hold exactly that value; a catalog variant with no
\* persisted value gets no entry.
C21_LoadKeepsPersistedValues == [][MergeAtLoad]_vars

\* the keys of the persisted configuration a page loaded
LoadedKeys(s) ==
  IF uiConfiguration[s].t = "obj"
  THEN {e.k : e \in AsMap(uiConfiguration[s].entries)}
  ELSE {}

\* the variants the merchant has entered a value for in this session
EditedKeys(s) == {e.k : e \in AsMap(entered[s])}

\* C22: the store never invents limits: the working settings of a page that
\* has not been edited are entries of the persisted configuration it loaded
\* (same keys, same values), and every key of the working settings and of a
\* written payload was loaded from the persisted map or entered by the
\* merchant in that session.
C22_NoInventedLimits ==
  \A s \in Sessions :
    /\ \A e \in AsMap(settings[s]) :
         \/ uiConfiguration[s].t = "obj" /\ e \in AsMap(uiConfiguration[s].entries)
         \/ e \in AsMap(entered[s])
    /\ IsSome(request[s])
         => LET r == JSONparse(Get(request[s]))
            IN /\ r.ok
               /\ r.val.t = "obj"
               /\ \A e \in AsMap(r.val.entries) :
                    e.k \in LoadedKeys(s) \cup EditedKeys(s)

\* a page that loaded a limit for v2 only and was given a value for v1 has
\* its write of both in flight
C22_Witness ==
  /\ pc["s1"] = "saving"
  /\ LoadedKeys("s1") = {V2}
  /\ EditedKeys("s1") = {V1}
  /\ ShownVariants(products["s1"]) = VariantIds
  /\ request["s1"] = Some(JSONstringify(JObj(settings["s1"])))
  /\ Len(settings["s1"]) = 2

\* the editions that write in an onSave handler
SaveEditions == {EdDefinitionSave, EdMetafieldsSave, EdMetafieldsThenParse}

\* the step C23 is about: a save sends one change that carries the whole
\* in-memory map and leaves the stored payload alone; when the change
\* resolves, the stored payload is the text sent or what it was, and no
\* change is left in flight
AtomicSave ==
  \A s \in Sessions :
    /\ (request[s] = None /\ request'[s] # None)
         => /\ pc[s] = "ready" /\ pc'[s] = "saving"
            /\ metafieldValue' = metafieldValue
            /\ edition[s] \in SaveEditions
                 => request'[s] = Some(JSONstringify(JObj(settings[s])))
    /\ (pc[s] = "saving" /\ pc'[s] # "saving")
         => /\ request'[s] = None
            /\ pc'[s] = "ready"
            /\ settings'[s] = settings[s]
            /\ metafieldValue' = request[s] \/ metafieldValue' = metafieldValue

\* C23: a save is atomic from the caller's view: it is a single write call
\* carrying the serialization of the entire in-memory map, and after it the
\* persisted payload is either exactly that serialization or exactly the
\* previous payload, never a partial mix.
C23_SaveIsAtomic == [][AtomicSave]_vars

\* a save of one limit over a stored map of two limits has replaced it
C23_Witness ==
  /\ pc["s1"] = "ready"
  /\ edition["s1"] = EdDefinitionSave
  /\ Len(uiConfiguration["s1"].entries) = 2
  /\ Len(settings["s1"]) = 1
  /\ metafieldValue = Some(JSONstringify(JObj(settings["s1"])))

\* the step C24 is about: a page comes to its create call only from its
\* bootstrap decision, taken once per flow by asking for the definition
\* and finding none; afterAuth sends its create only over a missing
\* definition, as a check that found none would have it
CreateFollowsEmptyCheck ==
  /\ \A s \in Sessions :
       /\ (pc[s] # "create" /\ pc'[s] = "create")
            => (pc[s] = "check" /\ ChecksDefinition(edition[s]) /\ ~definitionExists)
       /\ (pc[s] # "check" /\ pc'[s] = "check") => pc[s] = "closed"
  /\ (authPc' = "returned" /\ createdDefinition' # createdDefinition)
       => ~definitionExists

\* C24: in every flow each create-schema call is preceded, in the same
\* flow, by an existence check for the definition that found none, and a
\* flow issues at most one create.
C24_CreateOnlyAfterEmptyCheck == [][CreateFollowsEmptyCheck]_vars

\* the step C25 is about: the page stays rendered and its error list
\* changes to a list that is not empty (an edit empties it, a rejected
\* write ends a save): the host has reported errors to onError
ErrorsReported(s) ==
  /\ pc[s] = "ready" /\ pc'[s] = "ready"
  /\ uiErrors'[s] # uiErrors[s]
  /\ uiErrors'[s] # <<>>

\* C25: when the host reports errors through onError, the displayed error
\* list becomes exactly the sequence of the reported messages, one per
\* error, in the same order, in every edition.
C25_OnErrorShowsReportedMessages ==
  [][\A s \in Sessions : ErrorsReported(s) => uiErrors'[s] \in HostErrors]_vars

\* every value of the map in text is a number that is a non-negative integer
HoldsLimitsOnly(text) ==
  LET r == JSONparse(text)
  IN /\ r.ok
     /\ r.val.t = "obj"
     /\ \A e \in AsMap(r.val.entries) : e.v.t = "num" /\ e.v.n \in Nat

\* C26: starting from a persisted map whose values are all non-negative
\* integers, after any sequence of edits with values from the number field
\* and saves, every value in every written payload is a finite
\* non-negative integer.
C26_WrittenValuesAreLimits ==
  \A s \in Sessions : IsSome(request[s]) => HoldsLimitsOnly(Get(request[s]))

\* a write carries a loaded limit next to an entered 0
C26_Witness ==
  /\ IsSome(request["s1"])
  /\ \E e \in AsMap(entered["s1"]) :
       /\ e.v = JNum(0)
       /\ e \in AsMap(JSONparse(Get(request["s1"])).val.entries)
  /\ \E e \in AsMap(uiConfiguration["s1"].entries) :
       /\ e.v.n >= 1
       /\ ~HasKey(entered["s1"], e.k)
       /\ e \in AsMap(JSONparse(Get(request["s1"])).val.entries)

\* the variant ids of the lines of a cart
CartIds(c) == {c[i].merchandise.id : i \in {j \in 1..Len(c) : c[j].merchandise.hasId}}

\* two maps hold the same entries for ids
AgreeOn(a, b, ids) == \A e \in AsMap(a) \cup AsMap(b) : e.k \in ids => e \in AsMap(a) \cap AsMap(b)

\* C27: the result of run depends only on the limit entries for variant ids
\* present in the cart: a limit map that agrees with the configuration on
\* those ids gives the identical error list, and throws where the run
\* threw, whatever other keys either holds; createSettings ignores the
\* configuration keys that match no catalog variant.
C27_OnlyCartEntriesMatter ==
  /\ (runPc \in {"returned", "threw"} /\ configuration.t = "obj")
       => \A m \in LimitMaps :
            AgreeOn(m, configuration.entries, CartIds(cart))
              => RunFrom(<<>>, cart, JObj(m)) =
                   [threw |-> runPc = "threw", errors |-> errors]
  /\ \A s \in Sessions :
       (pc[s] = "ready" /\ uiConfiguration[s].t = "obj")
         => /\ \A e \in AsMap(settings[s]) : e.k \in ShownVariants(products[s])
            /\ \A m \in LimitMaps :
                 AgreeOn(m, uiConfiguration[s].entries, ShownVariants(products[s]))
                   => createSettings(products[s], JObj(m)) = settings[s]

\* run has returned an error for a cart of one variant over a configuration
\* that also limits the other variant
C27_Witness ==
  /\ runPc = "returned"
  /\ CartIds(cart) = {V1}
  /\ Len(errors) >= 1
  /\ configuration.t = "obj"
  /\ HasKey(configuration.entries, V2)

\* an edit on a rendered page of an edition that writes in onSave
EditBeforeSave(s) ==
  /\ pc[s] = "ready"
  /\ pc'[s] # "closed"
  /\ edition[s] \in SaveEditions
  /\ entered'[s] # entered[s] \/ settings'[s] # settings[s]

\* only the entry of variant v differs between the maps a and b, and b has it
OnlyEntryChanged(a, b, v) ==
  /\ HasKey(b, v)
  /\ \A e \in AsMap(a) \cup AsMap(b) : e.k # v => e \in AsMap(a) \cap AsMap(b)

\* what an edit leaves alone: the store, the page's position and what it loaded
EditFrame(s) ==
  /\ metafieldValue' = metafieldValue
  /\ definitionExists' = definitionExists
  /\ pc'[s] = "ready"
  /\ request'[s] = None
  /\ uiConfiguration'[s] = uiConfiguration[s]
  /\ products'[s] = products[s]
  /\ apiData'[s] = apiData[s]

\* C28: in the editions with an onSave handler, onChange changes only the
\* in-memory settings (the edited variant's entry is set, every other entry
\* is unchanged) and the error list; it issues no write, and the persisted
\* payload stays as it was until onSave runs.
C28_EditTouchesOnlySettings ==
  [][\A s \in Sessions :
       EditBeforeSave(s)
         => /\ EditFrame(s)
            /\ \E v \in ShownVariants(products[s]) :
                 /\ OnlyEntryChanged(settings[s], settings'[s], v)
                 /\ HasKey(entered'[s], v)
                 /\ Lookup(settings'[s], v) = Lookup(entered'[s], v)]_vars

\* a page of the edition of part_002:313 holds an edited limit next to a
\* loaded one while the stored payload is still the one it loaded
C28_Witness ==
  /\ pc["s1"] = "ready"
  /\ edition["s1"] = EdMetafieldsThenParse
  /\ uiConfiguration["s1"].t = "obj"
  /\ \E v \in VariantIds :
       /\ HasKey(entered["s1"], v)
       /\ [k |-> v, v |-> JNum(2)] \in AsMap(settings["s1"])
       /\ [k |-> v, v |-> JNum(1)] \in AsMap(uiConfiguration["s1"].entries)
  /\ Len(settings["s1"]) = 2
  /\ metafieldValue = Some(JSONstringify(uiConfiguration["s1"]))

\* an edit: the page records a value entered for a variant
Edited(s) ==
  /\ pc[s] = "ready"
  /\ pc'[s] # "closed"
  /\ entered'[s] # entered[s]

\* a write of an edit has been stored in place of another payload
EditStored(s) ==
  /\ pc[s] = "saving" /\ pc'[s] = "ready"
  /\ WritesOnChange(edition[s])
  /\ metafieldValue' # metafieldValue

\* while the write of an edit is in flight no error is shown
NoErrorsWhileEditIsWritten ==
  \A s \in Sessions :
    (pc[s] = "saving" /\ WritesOnChange(edition[s])) => uiErrors[s] = <<>>

\* C29: every onChange resets the error list to empty before any write is
\* attempted: after an edit with no write, or with a successful write, the
\* error list is empty, whatever errors earlier failed saves or onError
\* calls had recorded.
C29_EditClearsErrors ==
  /\ []NoErrorsWhileEditIsWritten
  /\ [][\A s \in Sessions : (Edited(s) \/ EditStored(s)) => uiErrors'[s] = <<>>]_vars

\* on a page that writes on change and has loaded a limit, the write of
\* an edit is in flight and no error is shown
C29_Witness ==
  /\ pc["s1"] = "saving"
  /\ edition["s1"] = EdDefinitionChange
  /\ uiErrors["s1"] = <<>>
  /\ Len(entered["s1"]) = 1
  /\ Len(settings["s1"]) = 2
  /\ request["s1"] = Some(JSONstringify(JObj(settings["s1"])))

\* C30: when the catalog query returns no data, initialization still
\* completes in every edition: the product list is treated as empty, the
\* settings are empty, and no flow fails while building the settings from
\* products that are undefined.
C30_NoCatalogDataStillLoads ==
  \A s \in Sessions : ~(pc[s] = "failed" /\ thrown[s] = ProductsUndefined)

====
